---- MODULE Spec2Model ----
(***************************************************************************)
(* Model of soft_matrix_test_tones (src/src/main.rs): the SQ matrix        *)
(* encoder sq_encode, the spectral window builder create_window, the tone  *)
(* renderer write_tones / write_silence and the sequencing of              *)
(* write_all_tones over a sample-indexed sink.                             *)
(*                                                                         *)
(* f32 values are fixed-point integers in units of 1/FP; angles are        *)
(* integers in units of 1/TURN of a full turn (a tenth of a degree).       *)
(***************************************************************************)
EXTENDS Integers, Sequences, FiniteSets, TLC

\* ------------------------------------------------------------------ f32
\* One f32 unit: the value 1.0 is FP.
FP == 1000
\* Angle units per full turn (2*PI radians).
TURN == 3600
\* std::f32::consts::PI, as an angle.
PI == TURN \div 2
\* const HALF_PI: f32 = PI / 2.0
HALF_PI == PI \div 2

Abs(a) == IF a < 0 THEN -a ELSE a

\* a / b rounded to the nearest unit (b > 0).
RoundDiv(a, b) == (2 * a + b) \div (2 * b)

\* Internal scale of the cosine series and 2*pi in that scale.
TrigScale == 10000
TwoPiScaled == 62832

\* cos(x) for 0 <= x <= pi/2, x and the result in units of 1/TrigScale.
CosSeries(x) ==
    LET x2 == (x * x) \div TrigScale
        t1 == (TrigScale * x2) \div (2 * TrigScale)
        t2 == (t1 * x2) \div (12 * TrigScale)
        t3 == (t2 * x2) \div (30 * TrigScale)
        t4 == (t3 * x2) \div (56 * TrigScale)
        t5 == (t4 * x2) \div (90 * TrigScale)
        t6 == (t5 * x2) \div (132 * TrigScale)
    IN  TrigScale - t1 + t2 - t3 + t4 - t5 + t6

\* FP * cos(2*pi*n/d) for 0 <= 4n <= d.
CosFirstQuadrant(n, d) ==
    RoundDiv(CosSeries(RoundDiv(TwoPiScaled * n, d)) * FP, TrigScale)

\* FP * cos(2*pi*n/d) for any integer n and d > 0.
CosTurn(n, d) ==
    LET a == n % d
        b == IF 2 * a > d THEN d - a ELSE a
    IN  IF 4 * b > d THEN -CosFirstQuadrant(d - 2 * b, 2 * d)
                     ELSE CosFirstQuadrant(b, d)

\* FP * sin(2*pi*n/d) = FP * cos(2*pi*(n/d - 1/4)).
SinTurn(n, d) == CosTurn(4 * n - d, 4 * d)

\* f32::cos and f32::sin over the angle grid, tabulated once.
CosTable == [a \in 0..(TURN - 1) |-> CosTurn(a, TURN)]
SinTable == [a \in 0..(TURN - 1) |-> SinTurn(a, TURN)]
cos(theta) == CosTable[theta % TURN]
sin(theta) == SinTable[theta % TURN]

\* Largest r in lo..hi with r*r <= n (lo*lo <= n is given).
RECURSIVE SqrtSearch(_, _, _)
SqrtSearch(lo, hi, n) ==
    IF lo >= hi THEN lo
    ELSE LET mid == (lo + hi + 1) \div 2
         IN  IF mid * mid <= n THEN SqrtSearch(mid, hi, n)
                               ELSE SqrtSearch(lo, mid - 1, n)

\* sqrt(n) rounded to the nearest integer, 0 <= n < 2^31.
ISqrt(n) ==
    LET r == SqrtSearch(0, 46340, n)
    IN  IF n - r * r > r THEN r + 1 ELSE r

\* f32::sqrt of a fixed-point value v (v >= 0), in fixed point.
sqrt(v) == ISqrt(v * FP)

\* Largest angle t in lo..hi with ay*cos(t) - ax*sin(t) >= 0 (ax, ay >= 0).
RECURSIVE AtanSearch(_, _, _, _)
AtanSearch(lo, hi, ax, ay) ==
    IF lo >= hi THEN lo
    ELSE LET mid == (lo + hi + 1) \div 2
         IN  IF ay * cos(mid) - ax * sin(mid) >= 0
             THEN AtanSearch(mid, hi, ax, ay)
             ELSE AtanSearch(lo, mid - 1, ax, ay)

\* How far angle t is from the direction of (ax, ay).
AtanError(t, ax, ay) == Abs(ay * cos(t) - ax * sin(t))

\* The nearer of the grid angles t0 and t0 + 1 to the direction of (ax, ay).
AtanNearest(t0, ax, ay) ==
    IF t0 < HALF_PI /\ AtanError(t0 + 1, ax, ay) < AtanError(t0, ax, ay)
    THEN t0 + 1 ELSE t0

\* The first-quadrant angle t of (|x|, |y|) moved to the quadrant of (x, y).
AtanQuadrant(t, y, x) ==
    IF y >= 0 THEN (IF x >= 0 THEN t ELSE PI - t)
              ELSE (IF x >= 0 THEN -t ELSE t - PI)

\* f32::atan2(y, x) as an angle in (-PI, PI]; atan2(0, 0) = 0.
atan2(y, x) ==
    IF x = 0 /\ y = 0 THEN 0
    ELSE AtanQuadrant(
             AtanNearest(AtanSearch(0, HALF_PI, Abs(x), Abs(y)), Abs(x), Abs(y)),
             y, x)

\* ------------------------------------------------------- num_complex
Complex(re, im) == [re |-> re, im |-> im]
Zero == Complex(0, 0)
CAdd(a, b) == Complex(a.re + b.re, a.im + b.im)
\* Product of two fixed-point complex values.
CMul(a, b) ==
    Complex(RoundDiv(a.re * b.re - a.im * b.im, FP),
            RoundDiv(a.re * b.im + a.im * b.re, FP))

\* Complex::from_polar(r, theta) = (r cos theta, r sin theta).
from_polar(r, theta) ==
    Complex(RoundDiv(r * cos(theta), FP), RoundDiv(r * sin(theta), FP))

\* Complex::to_polar() = (norm, arg) = (hypot(re, im), atan2(im, re)).
to_polar(z) == <<ISqrt(z.re * z.re + z.im * z.im), atan2(z.im, z.re)>>

\* ------------------------------------------------------------ sq_encode
\* The literal 0.7 applied to both rear amplitudes.
RearGain == 700
\* a * b for two f32 values.
FMul(a, b) == RoundDiv(a * b, FP)

\* Mutant: the rear phases are dropped, only the amplitudes are matrixed.
sq_encode_no_phase(left_front, right_front, left_rear, right_rear) ==
    LET left_back_amplitude == to_polar(left_rear)[1]
        right_back_amplitude == to_polar(right_rear)[1]
        left_total == CAdd(CAdd(left_front,
                          from_polar(FMul(RearGain, left_back_amplitude), 0 - HALF_PI)),
                          from_polar(FMul(RearGain, right_back_amplitude), 0))
        right_total == CAdd(CAdd(right_front,
                          from_polar(FMul(RearGain, left_back_amplitude), PI)),
                          from_polar(FMul(RearGain, right_back_amplitude), HALF_PI))
    IN  <<CAdd(left_front, left_total), CAdd(right_front, right_total)>>

\* Mutant: the totals are returned without adding the fronts a second time.
sq_encode_totals_only(left_front, right_front, left_rear, right_rear) ==
    LET left_back == to_polar(left_rear)
        right_back == to_polar(right_rear)
        left_total == CAdd(CAdd(left_front,
                          from_polar(FMul(RearGain, left_back[1]), left_back[2] - HALF_PI)),
                          from_polar(FMul(RearGain, right_back[1]), right_back[2]))
        right_total == CAdd(CAdd(right_front,
                          from_polar(FMul(RearGain, left_back[1]), left_back[2] + PI)),
                          from_polar(FMul(RearGain, right_back[1]), right_back[2] + HALF_PI))
    IN  <<left_total, right_total>>

sq_encode(left_front, right_front, left_rear, right_rear) ==
    LET left_back == to_polar(left_rear)
        left_back_amplitude == left_back[1]
        left_back_phase == left_back[2]
        right_back == to_polar(right_rear)
        right_back_amplitude == right_back[1]
        right_back_phase == right_back[2]
        left_back_for_left_total ==
            from_polar(FMul(RearGain, left_back_amplitude), left_back_phase - HALF_PI)
        right_back_for_left_total ==
            from_polar(FMul(RearGain, right_back_amplitude), right_back_phase)
        left_total ==
            CAdd(CAdd(left_front, left_back_for_left_total), right_back_for_left_total)
        left_back_for_right_total ==
            from_polar(FMul(RearGain, left_back_amplitude), left_back_phase + PI)
        right_back_for_right_total ==
            from_polar(FMul(RearGain, right_back_amplitude), right_back_phase + HALF_PI)
        right_total ==
            CAdd(CAdd(right_front, left_back_for_right_total), right_back_for_right_total)
    IN  <<CAdd(left_front, left_total), CAdd(right_front, right_total)>>

\* --------------------------------------------------------- create_window
\* Mutant: the mirror bin repeats the tone instead of its conjugate.
create_window_no_conj(window_size, tones) ==
    LET window(t) == [[[i \in 0..(window_size - 1) |-> Zero]
                          EXCEPT ![1] = t] EXCEPT ![window_size - 1] = t]
    IN  <<window(tones[1]), window(tones[2])>>

\* The two frequency-domain windows (left, right) of one tone pair; a Vec of
\* length window_size is a function on 0..window_size-1.
create_window(window_size, tones) ==
    LET left_total_tone == tones[1]
        right_total_tone == tones[2]
        zeros == [i \in 0..(window_size - 1) |-> Zero]
        right_total_window ==
            [[zeros EXCEPT ![1] = right_total_tone]
                EXCEPT ![window_size - 1] =
                    Complex(right_total_tone.re, FMul(-FP, right_total_tone.im))]
        left_total_window ==
            [[zeros EXCEPT ![1] = left_total_tone]
                EXCEPT ![window_size - 1] =
                    Complex(left_total_tone.re, FMul(-FP, left_total_tone.im))]
    IN  <<left_total_window, right_total_window>>

\* ------------------------------------------------------------- rustfft
\* e^(+2 pi i n / len), the twiddle factor of the inverse transform.
Twiddle(n, len) == Complex(CosTurn(n, len), SinTurn(n, len))

RECURSIVE FftSum(_, _, _, _)
FftSum(buffer, len, n, k) ==
    IF k = len THEN Zero
    ELSE CAdd(CMul(buffer[k], Twiddle(k * n, len)), FftSum(buffer, len, n, k + 1))

\* Fft::process_with_scratch of the planned inverse FFT: the unnormalized
\* inverse DFT of the buffer, in place.  The result is <<buffer, scratch>>:
\* the scratch is left holding workspace data and is never read.
process_with_scratch(buffer, scratch, len) ==
    <<[n \in 0..(len - 1) |-> FftSum(buffer, len, n, 0)],
      [i \in DOMAIN scratch |-> buffer[i % len]]>>

\* fft_inverse.get_inplace_scratch_len()
get_inplace_scratch_len(len) == len

\* scale: 1.0 / (WINDOW_SIZE as f32).sqrt()
ScaleOf(window_size) == RoundDiv(FP * FP, sqrt(window_size * FP))

\* The two transforms at the head of write_tones: the time-domain windows
\* and the scratch buffer they leave behind.
RenderWindows(windows, scratch, len) ==
    LET l == process_with_scratch(windows[1], scratch, len)
        r == process_with_scratch(windows[2], l[2], len)
    IN  [left |-> l[1], right |-> r[1], scratch |-> r[2]]

\* The frame write_tones writes for position window_ctr of the windows.
ToneFrame(scale, rendered, window_ctr) ==
    [front_left |-> FMul(scale, rendered.left[window_ctr].re),
     front_right |-> FMul(scale, rendered.right[window_ctr].re)]

\* ------------------------------------------------------------ test plans
\* The parameters of write_all_tones, in declaration order.
Directions ==
    <<"center", "right_front", "right_middle", "right_rear",
      "rear_center", "left_rear", "left_middle", "left_front">>

\* 0.707106781186548 as an f32 literal.
Sqrt1_2 == 707

TestPlan(center, right_front, right_middle, right_rear, rear_center, left_rear, left_middle, left_front) ==
    [center |-> center, right_front |-> right_front,
     right_middle |-> right_middle, right_rear |-> right_rear,
     rear_center |-> rear_center, left_rear |-> left_rear,
     left_middle |-> left_middle, left_front |-> left_front]

\* The arguments of the first call in main ("default.wav").
DefaultPlan ==
    TestPlan(<<from_polar(Sqrt1_2, 0), from_polar(Sqrt1_2, 0)>>,
             <<from_polar(0, 0), from_polar(FP, 0)>>,
             <<from_polar(FP \div 10, HALF_PI), from_polar(FP, 0)>>,
             <<from_polar(FP \div 10, PI), from_polar(FP, 0)>>,
             <<from_polar(Sqrt1_2, PI), from_polar(Sqrt1_2, 0)>>,
             <<from_polar(FP, PI), from_polar(FP \div 10, 0)>>,
             <<from_polar(FP, PI), from_polar(FP \div 10, HALF_PI)>>,
             <<from_polar(FP, 0), from_polar(0, 0)>>)

\* The arguments of the second call in main ("sq.wav").
SqPlan ==
    LET right_middle == sq_encode(from_polar(0, 0), from_polar(Sqrt1_2, 0),
                                  from_polar(0, 0), from_polar(Sqrt1_2, 0))
        rear_center == sq_encode(from_polar(0, 0), from_polar(0, 0),
                                 from_polar(Sqrt1_2, 0), from_polar(Sqrt1_2, 0))
        left_middle == sq_encode(from_polar(Sqrt1_2, 0), from_polar(0, 0),
                                 from_polar(Sqrt1_2, 0), from_polar(0, 0))
    IN  TestPlan(<<from_polar(Sqrt1_2, 0), from_polar(Sqrt1_2, 0)>>,
                 <<from_polar(0, 0), from_polar(FP, 0)>>,
                 right_middle,
                 <<from_polar(RearGain, 0), from_polar(RearGain, HALF_PI)>>,
                 <<CAdd(from_polar(RearGain, 0), from_polar(RearGain, 0 - HALF_PI)),
                   CAdd(from_polar(RearGain, HALF_PI), from_polar(RearGain, PI))>>,
                 rear_center,
                 left_middle,
                 <<from_polar(FP, 0), from_polar(0, 0)>>)

\* The calls main may make: a path with the plan written to it.
Paths == {"default.wav", "sq.wav"}
Calls == {<<"default.wav", DefaultPlan>>, <<"sq.wav", SqPlan>>,
          <<"sq.wav", DefaultPlan>>}

\* ---------------------------------------------------------------- bounds
MaxWindow == 4
MaxIterTone == 2
MaxIterSilence == 2
MaxRuns == 3

\* ----------------------------------------------------------------- state
VARIABLES
    \* ToneGenerator
    window_size, iterations_per_tone, iterations_per_silence, scale, scratch,
    sample_ctr,
    \* the running call of write_all_tones
    pc, stmt, iteration, window_ctr, path, plan, rendered,
    \* the sink of the file being written
    writes, flushed, sink_error,
    \* the process and what it has produced
    process, runs, generated, segments,
    \* one evaluation of sq_encode, one of create_window / write_tones
    enc, tone

config == <<window_size, iterations_per_tone, iterations_per_silence, scale>>
frame == <<pc, stmt, iteration, window_ctr, path, plan, rendered>>
sink == <<writes, flushed, sink_error>>
pure == <<enc, tone>>
vars == <<config, scratch, sample_ctr, frame, sink, process, runs, generated,
          segments, pure>>

NoError == [call |-> "none", sample_ctr |-> 0, writes |-> 0]
\* No file at a path yet; older: another file was generated after this one.
NoFile == [exists |-> FALSE, plan |-> DefaultPlan, writes |-> <<>>, older |-> FALSE]
NoRender == [left |-> <<>>, right |-> <<>>]
EncIdle == [pc |-> "off"]
ToneIdle == [pc |-> "off"]

\* Mutant: the right-front and right-middle segments change places.
ProgramSwapped ==
    <<"silence", "center", "silence", "right_middle", "silence", "right_front",
      "silence", "right_rear", "silence", "rear_center", "silence", "left_rear",
      "silence", "left_middle", "silence", "left_front", "silence">>

\* The body of write_all_tones between the open and the flush: a silence
\* segment, then each direction's tone segment followed by a silence segment.
Program ==
    <<"silence", "center", "silence", "right_front", "silence", "right_middle",
      "silence", "right_rear", "silence", "rear_center", "silence", "left_rear",
      "silence", "left_middle", "silence", "left_front", "silence">>

\* Mutant: the counter is carried over from the previous file.
KeepSampleCtr(ctr) == ctr
\* self.sample_ctr = 0
ResetSampleCtr(ctr) == 0
\* Mutant: the counter advances by two per frame.
SkipSampleCtr(ctr) == ctr + 2
\* self.sample_ctr += 1
NextSampleCtr(ctr) == ctr + 1
\* Mutant: write_silence loops iterations_per_tone times.
SilenceIterationsOfTone == iterations_per_tone
\* The loop bounds of write_silence and write_tones.
SilenceIterations == iterations_per_silence
ToneIterations == iterations_per_tone
\* Mutant: the right channel of a silence frame is written with the scale.
SilenceFrameScaled == [front_left |-> 0, front_right |-> scale]
\* SamplesByChannel::new().front_left(0.0).front_right(0.0)
SilenceFrame == [front_left |-> 0, front_right |-> 0]
\* Mutant: a failed sink call is ignored.
PanicsNever(ok) == FALSE
\* Result::unwrap panics on an error.
Panics(ok) == ~ok

\* The state after construction in main, before the first call.
GeneratorInit(W, T, S) ==
    /\ window_size = W
    /\ iterations_per_tone = T
    /\ iterations_per_silence = S
    /\ scale = ScaleOf(window_size)
    /\ scratch = [i \in 0..(get_inplace_scratch_len(window_size) - 1) |-> Zero]
    /\ sample_ctr = 0
    /\ pc = "idle"
    /\ stmt = 0
    /\ iteration = 0
    /\ window_ctr = 0
    /\ path = "default.wav"
    /\ plan = DefaultPlan
    /\ rendered = NoRender
    /\ writes = <<>>
    /\ flushed = FALSE
    /\ sink_error = NoError
    /\ process = "running"
    /\ runs = 0
    /\ generated = [p \in Paths |-> NoFile]
    /\ segments = <<>>

Init ==
    /\ \E W \in 3..MaxWindow, T \in 1..MaxIterTone, S \in 1..MaxIterSilence :
           GeneratorInit(W, T, S)
    /\ enc = EncIdle
    /\ tone = ToneIdle

\* unwrap() of a failed sink call: the process panics where it stands.
Panic(call, nwrites) ==
    /\ pc' = "panicked"
    /\ process' = "failure"
    /\ sink_error' = IF sink_error.call = "none"
                     THEN [call |-> call, sample_ctr |-> sample_ctr,
                           writes |-> nwrites]
                     ELSE sink_error

\* The sink returned an error that was not acted upon.
Noted(ok, call, nwrites) ==
    IF ok \/ sink_error.call # "none" THEN sink_error
    ELSE [call |-> call, sample_ctr |-> sample_ctr, writes |-> nwrites]

\* main calls write_all_tones(path, plan); the counter is reset first.
Call(p, pl) ==
    /\ pc = "idle"
    /\ runs < MaxRuns
    /\ runs' = runs + 1
    /\ sample_ctr' = ResetSampleCtr(sample_ctr)
    /\ pc' = "open"
    /\ stmt' = 1
    /\ path' = p
    /\ plan' = pl
    /\ writes' = <<>>
    /\ flushed' = FALSE
    /\ segments' = <<>>
    /\ UNCHANGED <<config, scratch, iteration, window_ctr, rendered, sink_error,
                   process, generated, pure>>

\* write_wav_to_file_path(..).unwrap() and get_random_access_f32_writer().unwrap()
OpenSink(ok) ==
    /\ pc = "open"
    /\ IF Panics(ok)
       THEN Panic("open", Len(writes))
       ELSE /\ pc' = "next"
            /\ sink_error' = Noted(ok, "open", Len(writes))
            /\ UNCHANGED process
    /\ UNCHANGED <<config, scratch, sample_ctr, stmt, iteration, window_ctr, path,
                   plan, rendered, writes, flushed, runs, generated, segments, pure>>

\* self.write_silence(&mut writer): entering the loop.
EnterSilence ==
    /\ pc = "next"
    /\ stmt <= Len(Program)
    /\ Program[stmt] = "silence"
    /\ segments' = Append(segments, [kind |-> "silence", tones |-> <<Zero, Zero>>,
                                     start |-> sample_ctr])
    /\ iteration' = 0
    /\ window_ctr' = 0
    /\ IF SilenceIterations = 0
       THEN pc' = "next" /\ stmt' = stmt + 1
       ELSE pc' = "write_silence" /\ UNCHANGED stmt
    /\ UNCHANGED <<config, scratch, sample_ctr, path, plan, rendered, sink, process,
                   runs, generated, pure>>

\* self.write_tones(&mut writer, self.create_window(direction)): the window
\* is built and both channels are transformed before the loop.
EnterTones ==
    /\ pc = "next"
    /\ stmt <= Len(Program)
    /\ Program[stmt] # "silence"
    /\ LET tones == plan[Program[stmt]]
           r == RenderWindows(create_window(window_size, tones), scratch,
                              window_size)
       IN  /\ rendered' = [left |-> r.left, right |-> r.right]
           /\ scratch' = r.scratch
           /\ segments' = Append(segments, [kind |-> "tone", tones |-> tones,
                                            start |-> sample_ctr])
    /\ iteration' = 0
    /\ window_ctr' = 0
    /\ IF ToneIterations = 0
       THEN pc' = "next" /\ stmt' = stmt + 1
       ELSE pc' = "write_tones" /\ UNCHANGED stmt
    /\ UNCHANGED <<config, sample_ctr, path, plan, sink, process, runs, generated,
                   pure>>

\* One pass of the inner loop body after a successful write: the counter
\* advances and the two nested loops step, leaving the segment at their end.
LoopStep(iterations) ==
    /\ sample_ctr' = NextSampleCtr(sample_ctr)
    /\ IF window_ctr + 1 < window_size
       THEN /\ window_ctr' = window_ctr + 1
            /\ UNCHANGED <<pc, stmt, iteration>>
       ELSE IF iteration + 1 < iterations
       THEN /\ window_ctr' = 0
            /\ iteration' = iteration + 1
            /\ UNCHANGED <<pc, stmt>>
       ELSE /\ window_ctr' = 0
            /\ iteration' = 0
            /\ pc' = "next"
            /\ stmt' = stmt + 1

\* The write_samples call both loops make, and its unwrap.
WriteSamples(ok, by, samples, iterations) ==
    /\ writes' = Append(writes, [index |-> sample_ctr,
                                 front_left |-> samples.front_left,
                                 front_right |-> samples.front_right,
                                 by |-> by])
    /\ IF Panics(ok)
       THEN /\ Panic("write", Len(writes) + 1)
            /\ UNCHANGED <<sample_ctr, stmt, iteration, window_ctr>>
       ELSE /\ LoopStep(iterations)
            /\ sink_error' = Noted(ok, "write", Len(writes) + 1)
            /\ UNCHANGED process

\* The loop body of write_silence.
WriteSilenceFrame(ok) ==
    /\ pc = "write_silence"
    /\ WriteSamples(ok, "write_silence", SilenceFrame, SilenceIterations)
    /\ UNCHANGED <<config, scratch, path, plan, rendered, flushed, runs, generated,
                   segments, pure>>

\* The loop body of write_tones.
WriteToneFrame(ok) ==
    /\ pc = "write_tones"
    /\ WriteSamples(ok, "write_tones", ToneFrame(scale, rendered, window_ctr),
                    ToneIterations)
    /\ UNCHANGED <<config, scratch, path, plan, rendered, flushed, runs, generated,
                   segments, pure>>

\* writer.flush().unwrap(), the last statement of write_all_tones.
Flush(ok) ==
    /\ pc = "next"
    /\ stmt = Len(Program) + 1
    /\ IF Panics(ok)
       THEN Panic("flush", Len(writes)) /\ UNCHANGED flushed
       ELSE /\ pc' = "done"
            /\ flushed' = TRUE
            /\ sink_error' = Noted(ok, "flush", Len(writes))
            /\ UNCHANGED process
    /\ UNCHANGED <<config, scratch, sample_ctr, stmt, iteration, window_ctr, path,
                   plan, rendered, writes, runs, generated, segments, pure>>

\* write_all_tones returns to main; the file at path now holds this run.
Return ==
    /\ pc = "done"
    /\ pc' = "idle"
    /\ generated' = [p \in Paths |->
                        IF p = path
                        THEN [exists |-> TRUE, plan |-> plan, writes |-> writes,
                              older |-> FALSE]
                        ELSE [generated[p] EXCEPT !.older = generated[p].exists]]
    /\ UNCHANGED <<config, scratch, sample_ctr, stmt, iteration, window_ctr, path,
                   plan, rendered, sink, process, runs, segments, pure>>

\* main returns: exit code 0.
Exit ==
    /\ pc = "idle"
    /\ process = "running"
    /\ pc' = "exited"
    /\ process' = "success"
    /\ UNCHANGED <<config, scratch, sample_ctr, stmt, iteration, window_ctr, path,
                   plan, rendered, sink, runs, generated, segments, pure>>

Next ==
    \/ \E c \in Calls : Call(c[1], c[2])
    \/ \E ok \in BOOLEAN : OpenSink(ok)
    \/ EnterSilence
    \/ EnterTones
    \/ \E ok \in BOOLEAN : WriteSilenceFrame(ok)
    \/ \E ok \in BOOLEAN : WriteToneFrame(ok)
    \/ \E ok \in BOOLEAN : Flush(ok)
    \/ Return
    \/ Exit

Spec == Init /\ [][Next]_vars

\* ------------------------------------------------- sq_encode on its own
\* Values given to sq_encode: zero, the kind main passes, and off-axis ones.
EncodeValsX == {Zero, from_polar(Sqrt1_2, 0), from_polar(FP \div 2, 0 - 1350)}
EncodeValsY == {Zero, from_polar(FP, 0), from_polar(RearGain, 2000)}
EncodeInputsX == EncodeValsX \X EncodeValsX \X EncodeValsX \X EncodeValsX
EncodeInputsY == EncodeValsY \X EncodeValsY \X EncodeValsY \X EncodeValsY
\* Complex scalars of a linear combination: 1 or 0.5i, and -2 or 1.
ScalarsA == {from_polar(FP, 0), from_polar(FP \div 2, HALF_PI)}
ScalarsB == {from_polar(2 * FP, PI), from_polar(FP, 0)}

Encode(t) == sq_encode(t[1], t[2], t[3], t[4])
\* a*x + b*y on 4-tuples, and on encoded pairs.
Combine(a, u, b, v) == [i \in DOMAIN u |-> CAdd(CMul(a, u[i]), CMul(b, v[i]))]

InitEncode ==
    /\ GeneratorInit(3, 1, 1)
    /\ tone = ToneIdle
    /\ \E x \in EncodeInputsX, y \in EncodeInputsY, a \in ScalarsA, b \in ScalarsB :
          enc = [pc |-> "input", x |-> x, y |-> y, a |-> a, b |-> b]

\* sq_encode is applied to x, to y and to a*x + b*y.
EncodeStep ==
    /\ enc.pc = "input"
    /\ enc' = [pc |-> "done", x |-> enc.x, y |-> enc.y, a |-> enc.a, b |-> enc.b,
               out_x |-> Encode(enc.x), out_y |-> Encode(enc.y),
               out_sum |-> Encode(Combine(enc.a, enc.x, enc.b, enc.y))]
    /\ UNCHANGED <<config, scratch, sample_ctr, frame, sink, process, runs,
                   generated, segments, tone>>

NextEncode == EncodeStep
SpecEncode == InitEncode /\ [][NextEncode]_vars

\* --------------------------------- create_window and write_tones on their own
MaxToneWindow == 8
\* (magnitude, phase) of the tones given to from_polar.
PolarTones ==
    {<<0, 0>>, <<FP, 0>>, <<Sqrt1_2, PI>>, <<FP \div 10, HALF_PI>>,
     <<RearGain, 0 - 450>>, <<FP \div 2, 1200>>}

InitTone ==
    /\ GeneratorInit(3, 1, 1)
    /\ enc = EncIdle
    /\ \E W \in 3..MaxToneWindow, l \in PolarTones, r \in PolarTones :
          tone = [pc |-> "tones", window_size |-> W, polar |-> <<l, r>>,
                  tones |-> <<from_polar(l[1], l[2]), from_polar(r[1], r[2])>>]

\* self.create_window(tones)
CreateWindow ==
    /\ tone.pc = "tones"
    /\ tone' = [pc |-> "window", window_size |-> tone.window_size,
                polar |-> tone.polar, tones |-> tone.tones,
                windows |-> create_window(tone.window_size, tone.tones)]
    /\ UNCHANGED <<config, scratch, sample_ctr, frame, sink, process, runs,
                   generated, segments, enc>>

\* write_tones on the windows: one pass of the window, as written to the sink.
WriteTones ==
    /\ tone.pc = "window"
    /\ LET W == tone.window_size
           r == RenderWindows(tone.windows,
                              [i \in 0..(get_inplace_scratch_len(W) - 1) |-> Zero], W)
       IN  tone' = [pc |-> "written", window_size |-> W, polar |-> tone.polar,
                    tones |-> tone.tones, windows |-> tone.windows,
                    samples |-> [n \in 0..(W - 1) |-> ToneFrame(ScaleOf(W), r, n)]]
    /\ UNCHANGED <<config, scratch, sample_ctr, frame, sink, process, runs,
                   generated, segments, enc>>

NextTone == CreateWindow \/ WriteTones
SpecTone == InitTone /\ [][NextTone]_vars

\* ================================================================ claims
\* Tolerances of the fixed-point arithmetic, in units of 1/FP.
EncodeTol == 3
PeakTol == FP \div 20

Max(a, b) == IF a > b THEN a ELSE b
Dist(u, v) == Max(Abs(u.re - v.re), Abs(u.im - v.im))
Double(z) == CAdd(z, z)
FrontLeftOnly(t) == t[2] = Zero /\ t[3] = Zero /\ t[4] = Zero

\* The order of the directions as the claims state it.
ClaimedOrder ==
    <<"center", "right_front", "right_middle", "right_rear",
      "rear_center", "left_rear", "left_middle", "left_front">>
\* Frame counts of one silence and one tone segment.
SilenceLen == iterations_per_silence * window_size
ToneLen == iterations_per_tone * window_size
\* Frame index i >= 0 lies in one of the nine silence ranges
\* k*period <= i < k*period + silence, k in 0..8.
InSilenceRange(i, period, silence) ==
    i \div period <= 8 /\ i % period < silence

\* C1: the segments of a run are, in order, a leading silence and then, for
\* k = 1..8, the tone of the k-th direction (center, right-front, right-middle,
\* right-rear, rear-center, left-rear, left-middle, left-front) followed by a
\* silence; a run that reaches its flush has written all seventeen.
C1_SegmentOrder ==
    /\ Len(segments) <= 17
    /\ \A i \in 1..Len(segments) :
          IF i % 2 = 1
          THEN segments[i].kind = "silence"
          ELSE /\ segments[i].kind = "tone"
               /\ segments[i].tones = plan[ClaimedOrder[i \div 2]]
    /\ (flushed \/ (pc = "next" /\ stmt > Len(Program))) =>
          /\ Len(segments) = 17
          /\ segments[17].kind = "silence"
C1_Witness ==
    /\ pc = "done"
    /\ flushed
    /\ plan = SqPlan
    /\ Len(segments) = 17
    /\ segments[6].tones = SqPlan.right_middle

\* C2: at the flush of a run without sink error, sample_ctr is
\* iterations_per_silence * W * 9 + iterations_per_tone * W * 8, whatever the plan.
C2_FrameCount ==
    ((pc = "next" /\ stmt > Len(Program)) \/ pc = "done") =>
        sample_ctr = iterations_per_silence * window_size * 9
                     + iterations_per_tone * window_size * 8
C2_Witness ==
    /\ pc = "done"
    /\ plan = DefaultPlan
    /\ generated["sq.wav"].exists
    /\ generated["sq.wav"].plan = SqPlan
    /\ Len(generated["sq.wav"].writes) = sample_ctr
    /\ iterations_per_silence # iterations_per_tone

\* C3 as stated: sq_encode(L, 0, 0, 0) = (2L, L).
C3_Original ==
    enc.pc = "done" =>
        /\ FrontLeftOnly(enc.x) => enc.out_x = <<Double(enc.x[1]), enc.x[1]>>
        /\ FrontLeftOnly(enc.y) => enc.out_y = <<Double(enc.y[1]), enc.y[1]>>
\* C3 amended: sq_encode(L, 0, 0, 0) = (2L, 0) exactly: the left output is
\* the left-front input doubled, the right output is zero.
C3_FrontLeftOnly ==
    enc.pc = "done" =>
        /\ FrontLeftOnly(enc.x) => enc.out_x = <<Double(enc.x[1]), Zero>>
        /\ FrontLeftOnly(enc.y) => enc.out_y = <<Double(enc.y[1]), Zero>>
        /\ (FrontLeftOnly(enc.x) /\ FrontLeftOnly(enc.y)) =>
              enc.out_sum =
                  <<Double(Combine(enc.a, enc.x, enc.b, enc.y)[1]), Zero>>
C3_Witness ==
    /\ enc.pc = "done"
    /\ enc.y = <<from_polar(FP, 0), Zero, Zero, Zero>>
    /\ enc.out_y = <<from_polar(2 * FP, 0), Zero>>
    /\ FrontLeftOnly(enc.x)
    /\ enc.x[1].im # 0

\* C4: sq_encode is linear: sq_encode(a*x + b*y) = a*sq_encode(x) + b*sq_encode(y)
\* on both outputs, to within the rounding of the arithmetic (EncodeTol units).
C4_Linear ==
    enc.pc = "done" =>
        LET lin == Combine(enc.a, enc.out_x, enc.b, enc.out_y)
        IN  /\ Dist(enc.out_sum[1], lin[1]) <= EncodeTol
            /\ Dist(enc.out_sum[2], lin[2]) <= EncodeTol
C4_Witness ==
    /\ enc.pc = "done"
    /\ \A i \in 1..4 : enc.x[i] # Zero /\ enc.y[i] # Zero /\ enc.x[i].im # 0
    /\ enc.a = from_polar(FP \div 2, HALF_PI)
    /\ enc.b = from_polar(2 * FP, PI)
    /\ enc.out_sum # enc.out_x
    /\ enc.out_sum[2] # Zero

\* C5: each window of create_window has length W, the channel's tone at index
\* 1, its exact conjugate at index W-1 and zero elsewhere; the left window is
\* built from the first tone of the pair, the right from the second.
C5_Window ==
    tone.pc \in {"window", "written"} =>
        \A c \in 1..2 :
            LET w == tone.windows[c]
                T == tone.tones[c]
                W == tone.window_size
            IN  /\ DOMAIN w = 0..(W - 1)
                /\ w[1] = T
                /\ w[W - 1].re = T.re
                /\ w[W - 1].im = -T.im
                /\ \A i \in (0..(W - 1)) \ {1, W - 1} : w[i] = Zero
C5_Witness ==
    /\ tone.pc = "window"
    /\ tone.window_size > 3
    /\ tone.tones[1].im > 0
    /\ tone.tones[2].im < 0
    /\ tone.windows[1][tone.window_size - 1].im < 0

\* The largest absolute sample of one channel of a written window.
Peak(ch) ==
    LET mag(n) == Abs(IF ch = 1 THEN tone.samples[n].front_left
                               ELSE tone.samples[n].front_right)
    IN  CHOOSE v \in {mag(n) : n \in DOMAIN tone.samples} :
            \A n \in DOMAIN tone.samples : mag(n) <= v

\* C6 as stated: the peak absolute sample of a window built from (m, p)
\* equals m (within PeakTol), whatever the window length.
C6_PeakIsMagnitude ==
    tone.pc = "written" =>
        \A c \in 1..2 : Abs(Peak(c) - tone.polar[c][1]) <= PeakTol

\* C7: once the sink has returned an error the run has stopped at that call:
\* the process has failed, no further write or flush was issued and
\* sample_ctr stands at the failed frame.
C7_ErrorStops ==
    sink_error.call # "none" =>
        /\ pc = "panicked"
        /\ process = "failure"
        /\ ~flushed
        /\ Len(writes) = sink_error.writes
        /\ sample_ctr = sink_error.sample_ctr
        /\ sink_error.call = "write" => writes[Len(writes)].index = sample_ctr
C7_Witness ==
    /\ sink_error.call = "write"
    /\ pc = "panicked"
    /\ runs = 2
    /\ Len(writes) > 1
    /\ writes[Len(writes)].by = "write_tones"

\* C8: a run that repeats the plan last written to its path issues the same
\* sequence of writes as that earlier run.
C8_Idempotent ==
    (pc = "done" /\ generated[path].exists /\ generated[path].plan = plan) =>
        generated[path].writes = writes
C8_Witness ==
    /\ pc = "done"
    /\ runs = 3
    /\ generated[path].exists
    /\ generated[path].plan = plan
    /\ generated[path].older
    /\ \E p \in Paths \ {path} : generated[p].exists /\ generated[p].plan # plan
    /\ \E n \in 1..Len(writes) : writes[n].front_left # 0

\* C9: every frame written at an index of a silence range is (0, 0), and the
\* frames write_tones writes lie outside the nine silence ranges.
C9_SilenceIsZero ==
    LET silence == SilenceLen
        period == SilenceLen + ToneLen
    IN  \A n \in 1..Len(writes) :
            IF InSilenceRange(writes[n].index, period, silence)
            THEN /\ writes[n].front_left = 0
                 /\ writes[n].front_right = 0
                 /\ writes[n].by = "write_silence"
            ELSE writes[n].by = "write_tones"
C9_Witness ==
    /\ pc = "done"
    /\ \E n \in 1..Len(writes) :
          /\ writes[n].by = "write_tones"
          /\ writes[n].front_left # 0
          /\ writes[n].front_right # 0
    /\ writes[Len(writes)].by = "write_silence"
    /\ writes[Len(writes)].front_left = 0

\* C10: the n-th write of a run (from 0) is at index n, also in a later file
\* of the same generator; each finished silence segment advanced the index by
\* iterations_per_silence * W and each tone segment by iterations_per_tone * W.
C10_ConsecutiveIndices ==
    /\ \A n \in 1..Len(writes) : writes[n].index = n - 1
    /\ \A i \in 1..Len(segments) :
          LET len == IF segments[i].kind = "silence" THEN SilenceLen ELSE ToneLen
              end == IF i < Len(segments) THEN segments[i + 1].start
                     ELSE IF pc \in {"next", "done", "idle", "exited"}
                          THEN sample_ctr
                          ELSE segments[i].start + len
          IN  end = segments[i].start + len
C10_Witness ==
    /\ runs = 2
    /\ generated["default.wav"].exists
    /\ Len(writes) = 2
    /\ writes[1].index = 0
    /\ writes[2].index = 1
    /\ pc = "write_silence"
====
